---- MODULE Spec2Model ----
(***************************************************************************)
(* Change-detection and notification pipeline of the free-games bot:       *)
(* the SQLite game store (internal/database), the set-difference detector  *)
(* and scheduler loop (internal/app), the game service and the Discord     *)
(* bot's delivery and manual-refresh handlers (internal/bot).              *)
(*                                                                         *)
(* Time is counted in hours.  Strings are TLA+ strings; the detector's     *)
(* lookup key is built by concatenation exactly as the code builds it.     *)
(***************************************************************************)
EXTENDS Integers, Sequences, FiniteSets, TLC

\* ------------------------------------------------------------------ bounds
MaxSnapLen == 2      \* longest snapshot of the store and re-fetch checks
MaxCycles  == 1      \* ticker events and refresh commands after the initial check
MaxCount   == 2      \* the delivery counters stop counting here
MaxAgeCycles == 124  \* scheduled checks of the ageing run (31 days of them)
MaxQuerySteps == 3   \* saves and waits before the queries of the query run
MaxFailures == 2     \* consecutive checks that fail at the fetch
MaxRefills == 2      \* ticker events the refill goroutine takes
MaxWaits == 3        \* Wait and TryWait calls on one RateLimiter
MaxWrites == 2       \* Increment and Set calls on the metrics
MaxSummaries == 2    \* Summary calls on the metrics

\* ------------------------------------------------------- program constants
TickHours   == 6     \* time.NewTicker(6 * time.Hour)
StaleHours  == 24    \* datetime('now', '-1 day')
ActiveHours == 168   \* datetime('now', '-7 days')
PurgeHours  == 720   \* datetime('now', '-30 days')
Attempts    == 3     \* for attempt := 1; attempt <= 3; attempt++
BackoffSeconds == 5  \* time.Sleep(5 * time.Second)
DefaultTimeout == 90 \* getEnvDuration("SCRAPER_TIMEOUT", 90*time.Second)
Burst       == 1     \* NewRateLimiter(50, 1), NewRateLimiter(5, 1)

StatusFreeNow    == "Free Now"
StatusComingSoon == "Coming Soon"

\* --------------------------------------------------------------- the inputs
\* models.Game
Game(t, img, st, from, to) ==
  [Title |-> t, ImageURL |-> img, Status |-> st, FreeFrom |-> from, FreeTo |-> to]

\* The records the scraping script can produce in this model: a title that
\* recurs with another end date, a record whose status, image and start
\* marker change under the same (title, free_to), and a card whose status
\* text was not recognised (the script yields '' for a missing element).
GameUniverse ==
  { Game("A", "i0", StatusComingSoon, "D0", "D1"),
    Game("A", "i1", StatusFreeNow,    "",   "D1"),
    Game("A", "i1", StatusFreeNow,    "",   "D2"),
    Game("A", "i1", "",               "",   "D2"),
    Game("B", "i1", StatusComingSoon, "D0", "D1") }

SeqsUpTo(S, n) == UNION { [1..k -> S] : k \in 1..n }

\* Non-empty snapshots; the script does not deduplicate cards.
Snapshots == SeqsUpTo(GameUniverse, MaxSnapLen)

\* The snapshots given to SaveGames on its own, over the records of one
\* title: two of one (title, free_to) that differ in image, status and start
\* marker, and one with another free_to
Batches == SeqsUpTo({ g \in GameUniverse : g.Title = "A" /\ g.Status # "" },
                    MaxSnapLen)

\* The snapshots the cycles of the scheduler model fetch: a title alone,
\* announced ahead, free with either end date or with an unrecognised
\* status, a card listed twice, and a batch of two titles
CycleSnapshots ==
  { <<g>> : g \in {h \in GameUniverse : h.Title = "A"} } \cup
  { << Game("A", "i1", StatusFreeNow, "", "D1"),
       Game("A", "i1", StatusFreeNow, "", "D1") >>,
    << Game("A", "i1", StatusFreeNow, "", "D1"),
       Game("B", "i1", StatusComingSoon, "D0", "D1") >> }

Channels        == {"c1", "c2"}   \* channels a server can configure
LegacyChannel   == "c0"           \* DISCORD_CHANNEL_ID when set
AllChannels     == Channels \cup {LegacyChannel}

Range(s) == { s[i] : i \in 1..Len(s) }

\* ---------------------------------------------------------------- the store
\* Composite identity of a row / of a game
RowKey(r)  == <<r.title, r.free_to>>
GameKey(g) == <<g.Title, g.FreeTo>>
AllKeys    == { GameKey(g) : g \in GameUniverse }

\* UPDATE games SET last_seen = datetime('now', '-1 day') WHERE 1=1
MarkNotSeen(rows, now) == { [r EXCEPT !.last_seen = now - StaleHours] : r \in rows }

\* A conflict target of title alone
UpsertConflict_TitleOnly(r, g) == r.title = g.Title

\* ON CONFLICT(title, free_to), backed by UNIQUE(title, free_to)
UpsertConflict(r, g) == r.title = g.Title /\ r.free_to = g.FreeTo

\* INSERT OR REPLACE: the row in conflict is deleted and a new one inserted,
\* created_at taking its default again
UpsertGame_Replace(rows, g, now) ==
  { r \in rows : ~UpsertConflict(r, g) }
    \cup { [title |-> g.Title,
             image_url |-> g.ImageURL, status |-> g.Status,
             free_from |-> g.FreeFrom, free_to |-> g.FreeTo,
             created_at |-> now, last_seen |-> now] }

\* INSERT ... ON CONFLICT(title, free_to) DO UPDATE SET image_url, status,
\* free_from, updated_at, last_seen
\* (a row is its columns but id and updated_at, which nothing reads)
UpsertGame(rows, g, now) ==
  IF \E r \in rows : UpsertConflict(r, g)
  THEN { IF UpsertConflict(r, g)
         THEN [r EXCEPT !.image_url = g.ImageURL, !.status = g.Status,
                        !.free_from = g.FreeFrom, !.last_seen = now]
         ELSE r : r \in rows }
  ELSE rows \cup { [title |-> g.Title,
                    image_url |-> g.ImageURL, status |-> g.Status,
                    free_from |-> g.FreeFrom, free_to |-> g.FreeTo,
                    created_at |-> now, last_seen |-> now] }

\* The transaction's working copy after the stale mark and the first n Execs
RECURSIVE TxAfter(_, _, _, _)
TxAfter(rows, games, now, n) ==
  IF n = 0 THEN MarkNotSeen(rows, now)
  ELSE UpsertGame(TxAfter(rows, games, now, n - 1), games[n], now)

\* Failure points of SaveGames: 0 none, 1 the stale mark (or Begin/Prepare),
\* 1+i the i-th Exec, Len+2 the Commit.
FailPoints(games) == 0 .. (Len(games) + 2)

\* What the working copy holds when the failure point is hit
TxAtFailure(rows, games, now, failAt) ==
  IF failAt = 1 THEN rows
  ELSE IF failAt = Len(games) + 2 THEN TxAfter(rows, games, now, Len(games))
  ELSE TxAfter(rows, games, now, failAt - 2)

\* SaveGames without the deferred rollback: an error return leaves what the
\* transaction had written so far
SaveGames_NoRollback(rows, games, now, failAt) ==
  IF failAt = 0
  THEN [err |-> FALSE, rows |-> TxAfter(rows, games, now, Len(games))]
  ELSE [err |-> TRUE,  rows |-> TxAtFailure(rows, games, now, failAt)]

\* Database.SaveGames: defer tx.Rollback() discards the working copy on
\* every error return; Commit publishes it.
SaveGames(rows, games, now, failAt) ==
  IF failAt = 0
  THEN [err |-> FALSE, rows |-> TxAfter(rows, games, now, Len(games))]
  ELSE [err |-> TRUE,  rows |-> rows]

\* Scan of one row into a models.Game
RowGame(r) == Game(r.title, r.image_url, r.status, r.free_from, r.free_to)

StatusRank(st) == IF st = StatusFreeNow THEN 1
                  ELSE IF st = StatusComingSoon THEN 2 ELSE 3

\* Titles of the universe in collation order
TitleRank(t) == IF t = "A" THEN 1 ELSE IF t = "B" THEN 2 ELSE 3

OrderLe(r1, r2) ==
  \/ StatusRank(r1.status) < StatusRank(r2.status)
  \/ /\ StatusRank(r1.status) = StatusRank(r2.status)
     /\ TitleRank(r1.title) <= TitleRank(r2.title)

\* Every listing of a row set that ORDER BY status rank, title allows
\* (rows that tie on both come out in either order)
OrderedListings(rows) ==
  { s \in [1..Cardinality(rows) -> rows] :
      /\ \A i, j \in 1..Cardinality(rows) : i # j => s[i] # s[j]
      /\ \A i, j \in 1..Cardinality(rows) : i < j => OrderLe(s[i], s[j]) }

\* The window alone, with no condition on the status
ActiveRows_AnyStatus(rows, now) ==
  { r \in rows : r.last_seen > now - ActiveHours }

\* WHERE status IN ('Free Now','Coming Soon') AND last_seen > datetime('now','-7 days')
ActiveRows(rows, now) ==
  { r \in rows : /\ r.status \in {StatusFreeNow, StatusComingSoon}
                 /\ r.last_seen > now - ActiveHours }

\* rows.Next / rows.Scan over a listing
ScanRows(s) == [i \in 1..Len(s) |-> RowGame(s[i])]

\* Database.GetActiveGames: the possible result lists
GetActiveGames(rows, now) ==
  { ScanRows(s) : s \in OrderedListings(ActiveRows(rows, now)) }

\* Database.CleanupOldGames
CleanupOldGames(rows, now) == { r \in rows : ~(r.last_seen < now - PurgeHours) }

\* since.Format("2006-01-02 15:04:05"): the wall clock of the time's own
\* location (time.Now() is in time.Local), zone hours ahead of UTC, without
\* any zone marker
Format(since, zone) == since + zone

\* Database.GetNewGames: created_at is CURRENT_TIMESTAMP, which is UTC, and
\* is compared with the formatted text
GetNewGames(rows, since, zone) ==
  { ScanRows(s) :
      s \in OrderedListings({ r \in rows :
                                /\ r.created_at > Format(since, zone)
                                /\ r.status \in {StatusFreeNow, StatusComingSoon} }) }

\* ------------------------------------------------------------- collections
IsFreeNow(g)    == g.Status = StatusFreeNow
IsComingSoon(g) == g.Status = StatusComingSoon

\* A switch whose second case is a default branch
NewGameCollection_DefaultBranch(games) ==
  [FreeNow    |-> SelectSeq(games, IsFreeNow),
   ComingSoon |-> SelectSeq(games, LAMBDA g : ~IsFreeNow(g))]

\* models.NewGameCollection
NewGameCollection(games) ==
  [FreeNow    |-> SelectSeq(games, IsFreeNow),
   ComingSoon |-> SelectSeq(games, IsComingSoon)]

EmptyCollection == [FreeNow |-> <<>>, ComingSoon |-> <<>>]

\* The detector keyed by title alone
LookupKey_TitleOnly(g) == g.Title

\* key := game.Title + "|" + game.FreeTo
LookupKey(g) == g.Title \o "|" \o g.FreeTo

\* A detector that takes a record for known only when it is stored as scraped
findNewGames_ByRecord(scrapedGames, currentGames) ==
  LET existingGames == Range(currentGames.FreeNow)
                         \cup Range(currentGames.ComingSoon)
      IsNew(g) == g \notin existingGames
  IN  NewGameCollection(SelectSeq(scrapedGames, IsNew))

\* App.findNewGames
findNewGames(scrapedGames, currentGames) ==
  LET existingGames == { LookupKey(g) : g \in Range(currentGames.FreeNow)
                                           \cup Range(currentGames.ComingSoon) }
      IsNew(g) == LookupKey(g) \notin existingGames
  IN  NewGameCollection(SelectSeq(scrapedGames, IsNew))


\* ---------------------------------------------------------------- delivery
\* The embeds one channel is sent, in order: sendFreeNowGames then
\* sendComingSoonGames, one message per game
Messages(coll) == coll.FreeNow \o coll.ComingSoon

HasGames(coll) == Len(coll.FreeNow) > 0 \/ Len(coll.ComingSoon) > 0

\* The channels SendGameUpdates addresses
Destinations(configs, legacy) ==
  IF configs = {} /\ legacy # "" THEN {legacy} ELSE configs

\* DiscordBot.SendGameUpdates.  cfgErr: GetAllActiveServerConfigs fails.
\* err is the kind of error returned: "config" for that query, "delivery"
\* for a failed send, "none" for nil.
\* upTo[c]: how many of the messages reach channel c before a send fails
\* (all of them when nothing fails); a failed send ends that channel's loop.
SendGameUpdates(coll, configs, legacy, cfgErr, upTo) ==
  LET msgs == Messages(coll)
      dests == Destinations(configs, legacy)
      sentTo(c) == IF c \in dests THEN SubSeq(msgs, 1, upTo[c]) ELSE <<>>
  IN  IF cfgErr
      THEN [err |-> "config", sent |-> [c \in AllChannels |-> <<>>]]
      ELSE IF configs = {} /\ legacy # ""
      THEN [err |-> IF upTo[legacy] < Len(msgs) THEN "delivery" ELSE "none",
            sent |-> [c \in AllChannels |-> sentTo(c)]]
      ELSE [err |-> "none",
            sent |-> [c \in AllChannels |-> sentTo(c)]]

\* The slash commands send to the channel the command was typed in
SendToChannel(coll, ch, k) ==
  [c \in AllChannels |-> IF c = ch THEN SubSeq(Messages(coll), 1, k) ELSE <<>>]

Occurrences(s, k) == Cardinality({ i \in 1..Len(s) : GameKey(s[i]) = k })

Min(a, b) == IF a < b THEN a ELSE b

Record(del, sent) ==
  [k \in AllKeys, c \in AllChannels |->
     Min(del[k, c] + Occurrences(sent[c], k), MaxCount)]

\* ------------------------------------------------------------ the scheduler
VARIABLES
  store,          \* rows of table games
  now,            \* wall clock, hours
  lastCheck,      \* App.lastCheck
  serverConfigs,  \* channels of the active server_configs rows
  channelID,      \* DiscordBot.channelID ("" when not configured)
  localZone,      \* offset of time.Local from UTC, hours
  strategy,       \* which performGameCheck runs: "difference" or "created"
  timeout,        \* ScraperConfig.Timeout, in seconds
  tpc,            \* where App.Run is
  tScraped,       \* performGameCheck: scrapedGames
  tNew,           \* performGameCheck: newGames
  tOutcome,       \* how performGameCheck returned ("none" while it runs)
  ticks,          \* ticker events consumed
  mpc,            \* where the refresh command handler is
  mKind,          \* "slash" (/refresh) or "msg" (!refresh)
  mChan,          \* channel the command came from
  manuals,        \* refresh commands handled
  delivered,      \* game messages sent, per (title, free_to) and channel
  errorMessages,  \* SendErrorMessage calls
  rl,             \* a RateLimiter and the goroutines that use it
  metrics         \* the Metrics mutex and the goroutines that use it

vars == <<store, now, lastCheck, serverConfigs, channelID, localZone, strategy,
          timeout, tpc, tScraped, tNew,
          tOutcome, ticks, mpc, mKind, mChan, manuals, delivered,
          errorMessages, rl, metrics>>

timerVars  == <<tpc, tScraped, tNew, tOutcome, ticks>>
manualVars == <<mpc, mKind, mChan, manuals>>
\* What neither a check nor a command handler writes
configVars == <<serverConfigs, channelID, localZone, strategy, timeout,
                rl, metrics>>

\* Goroutines that call Close on one RateLimiter
Closers == {"k1", "k2"}

\* NewRateLimiter: the channel filled with burst tokens, the context live,
\* refill started and waiting in its select
NewRateLimiter ==
  [tokens   |-> Burst,                       \* len(rl.tokens)
   chClosed |-> FALSE,                       \* close(rl.tokens) has run
   closes   |-> 0,                           \* times close(rl.tokens) ran
   closed   |-> FALSE,                       \* rl.closed
   ctxDone  |-> FALSE,                       \* rl.cancel() has run
   mu       |-> "",                          \* who holds rl.mu
   closer   |-> [k \in Closers |-> "idle"],  \* where each Close call is
   returned |-> FALSE,                       \* some Close call has returned
   refill   |-> "select",                    \* where refill is
   panic    |-> "none",                      \* the runtime panic, if any
   refills  |-> 0,                           \* ticker events refill took
   waits    |-> 0,                           \* Wait and TryWait calls made
   granted  |-> 0,                           \* calls that reported a token
   late     |-> FALSE]                       \* one did after a Close returned

\* Goroutines that call Increment* / Set* on the metrics
Writers == {"w1", "w2"}

\* metrics.New: the mutex free, nobody in a call
NewMetrics ==
  [readers   |-> 0,                          \* read locks held
   pending   |-> "",                         \* the writer in Lock or holding
   writing   |-> FALSE,                      \* pending holds the lock
   summary   |-> "idle",                     \* where the Summary call is
   writer    |-> [w \in Writers |-> "idle"], \* where each writer is
   writes    |-> 0,                          \* writer calls made
   summaries |-> 0]                          \* Summary calls made

\* SCRAPER_TIMEOUT=60s, a setting with which a fetch can succeed
SetTimeout == 60

\* EpicScraper.ScrapeGames as seen by its caller: an error, or a non-empty list
ScrapeResults ==
  { [err |-> TRUE, games |-> <<>>] } \cup
  { [err |-> FALSE, games |-> S] : S \in CycleSnapshots }

\* The deployments considered: only the legacy channel, or two servers
\* that ran /setup
Configurations == { <<{}, LegacyChannel>>, <<Channels, LegacyChannel>> }

Init ==
  /\ store = {}
  /\ now = 0
  /\ lastCheck = 0
  /\ \E cfg \in Configurations : serverConfigs = cfg[1] /\ channelID = cfg[2]
  /\ localZone = 0
  /\ strategy = "difference"
  /\ timeout = SetTimeout
  /\ rl = NewRateLimiter
  /\ metrics = NewMetrics
  /\ tpc = "new"
  /\ tScraped = <<>>
  /\ tNew = EmptyCollection
  /\ tOutcome = "none"
  /\ ticks = 0
  /\ mpc = "idle"
  /\ mKind = "slash"
  /\ mChan = "c1"
  /\ manuals = 0
  /\ delivered = [k \in AllKeys, c \in AllChannels |-> 0]
  /\ errorMessages = 0

\* What Run does with the value performGameCheck returns: an error is logged
\* and reported with SendErrorMessage, then the loop waits for the ticker
RunReports(outcome) == outcome # "ok"

\* Run returning the error of the check
RunAfterCheck_ReturnsError(outcome) ==
  IF outcome = "ok" THEN "idle" ELSE "stopped"

\* Where Run is once performGameCheck has returned: at the select of its
\* loop, after the initial check and after every scheduled one, whatever
\* was returned
RunAfterCheck(outcome) == "idle"

\* lastCheck written on every return, and no error reported
TimerReturn_AlwaysAdvances(outcome, advance) ==
  /\ tpc' = "idle"
  /\ tScraped' = <<>>
  /\ tNew' = EmptyCollection
  /\ tOutcome' = outcome
  /\ lastCheck' = now
  /\ errorMessages' = errorMessages

\* performGameCheck returned; advance: it reached a.lastCheck = time.Now()
TimerReturn(outcome, advance) ==
  /\ tpc' = RunAfterCheck(outcome)
  /\ tScraped' = <<>>
  /\ tNew' = EmptyCollection
  /\ tOutcome' = outcome
  /\ lastCheck' = IF advance THEN now ELSE lastCheck
  /\ errorMessages' = IF RunReports(outcome) THEN errorMessages + 1
                                             ELSE errorMessages

\* Where performGameCheck goes after ScrapeGames
AfterScrape(r) ==
  IF r.err THEN "fetch_error"
  ELSE IF Len(r.games) = 0 THEN "empty" ELSE "detect"

\* performGameCheck going on to notify although SaveGames failed
AfterSave_IgnoresError(err, newGames) ==
  IF HasGames(newGames) THEN "send" ELSE "done"

\* Where performGameCheck goes after SaveGames
AfterSave(err, newGames) ==
  IF err THEN "store_error"
  ELSE IF HasGames(newGames) THEN "send" ELSE "done"

\* Where performGameCheck goes after SendGameUpdates
AfterSend(err) ==
  IF err = "none" THEN "done"
  ELSE IF err = "config" THEN "config_error" ELSE "notify_error"

\* Run: discordBot.Start succeeded, the initial check begins
RunStart ==
  /\ tpc = "new"
  /\ tpc' = "scrape"
  /\ UNCHANGED <<store, now, lastCheck, configVars, tScraped, tNew, tOutcome,
                 ticks, manualVars, delivered, errorMessages>>

\* performGameCheck up to the call of SaveGames: ScrapeGames returns, then
\* GetActiveGames and findNewGames
TimerScrape ==
  /\ tpc = "scrape"
  /\ \E r \in ScrapeResults :
       LET next == AfterScrape(r) IN
       IF next = "fetch_error"
       THEN TimerReturn("fetch_error", FALSE)
       ELSE IF next = "empty"
       THEN TimerReturn("ok", FALSE)
       ELSE \/ TimerReturn("read_error", FALSE)
            \/ \E cur \in GetActiveGames(store, now) :
                 /\ tScraped' = r.games
                 /\ tNew' = findNewGames(r.games, NewGameCollection(cur))
                 /\ tpc' = "save"
                 /\ UNCHANGED <<tOutcome, lastCheck, errorMessages>>
  /\ UNCHANGED <<store, now, configVars, ticks, manualVars, delivered>>

\* performGameCheck: SaveGames, and the return when nothing is new
TimerSave ==
  /\ tpc = "save"
  /\ \E failAt \in FailPoints(tScraped) :
       LET r    == SaveGames(store, tScraped, now, failAt)
           next == AfterSave(r.err, tNew)
       IN  /\ store' = r.rows
           /\ IF next = "send"
              THEN /\ tpc' = "send"
                   /\ tScraped' = <<>>
                   /\ UNCHANGED <<tNew, tOutcome, lastCheck, errorMessages>>
              ELSE IF next = "done"
              THEN TimerReturn("ok", TRUE)
              ELSE TimerReturn("store_error", FALSE)
  /\ UNCHANGED <<now, configVars, ticks, manualVars, delivered>>

\* How far each channel's sends get; irrelevant when the configs query failed
SendOutcomes(coll, cfgErr) ==
  IF cfgErr THEN { [c \in Destinations(serverConfigs, channelID) |-> 0] }
  ELSE [Destinations(serverConfigs, channelID) -> 0..Len(Messages(coll))]

\* performGameCheck: SendGameUpdates(newGames), then lastCheck = time.Now()
TimerSend ==
  /\ tpc = "send"
  /\ \E cfgErr \in BOOLEAN :
     \E upTo \in SendOutcomes(tNew, cfgErr) :
       LET r == SendGameUpdates(tNew, serverConfigs, channelID, cfgErr, upTo)
       IN  /\ delivered' = Record(delivered, r.sent)
           /\ IF AfterSend(r.err) = "done"
              THEN TimerReturn("ok", TRUE)
              ELSE TimerReturn(AfterSend(r.err), FALSE)
  /\ UNCHANGED <<store, now, configVars, ticks, manualVars>>

\* Run: case <-ticker.C
Tick ==
  /\ tpc = "idle"
  /\ ticks + manuals < MaxCycles
  /\ ticks' = ticks + 1
  /\ now' = now + TickHours
  /\ tpc' = "scrape"
  /\ tOutcome' = "none"
  /\ UNCHANGED <<store, lastCheck, configVars, tScraped, tNew,
                 manualVars, delivered, errorMessages>>

\* Run: case <-stop
Stop ==
  /\ tpc = "idle"
  /\ tpc' = "stopped"
  /\ UNCHANGED <<store, now, lastCheck, configVars, tScraped, tNew, tOutcome,
                 ticks, manualVars, delivered, errorMessages>>

\* ------------------------------------------------- the refresh command
\* The handler returned; reported: it called SendErrorMessage
ManualReturn(reported) ==
  /\ mpc' = "idle"
  /\ errorMessages' = IF reported THEN errorMessages + 1 ELSE errorMessages

\* Whether a refresh command is let in while Run is at pc: the handlers hold
\* no lock and test no flag, so always
RefreshAdmitted(pc) == TRUE

\* interactionHandler "refresh" / messageHandler "!refresh": discordgo runs
\* each handler in a goroutine of its own while Run is anywhere in its loop.
\* The message handler only answers in the configured channel.
ManualStart ==
  /\ mpc = "idle"
  /\ tpc \notin {"new", "stopped"}
  /\ RefreshAdmitted(tpc)
  /\ ticks + manuals < MaxCycles
  /\ \E kind \in {"slash", "msg"} :
     \E ch \in AllChannels :
       /\ kind = "msg" => (channelID # "" /\ ch = channelID)
       /\ kind = "slash" => ch = "c1"
       /\ mKind' = kind
       /\ mChan' = ch
  /\ mpc' = "refresh"
  /\ manuals' = manuals + 1
  /\ UNCHANGED <<store, now, lastCheck, configVars, timerVars, delivered,
                 errorMessages>>

\* GameService.RefreshGames
RefreshGames(rows, t, r, failAt, cleanupErr) ==
  IF r.err THEN [err |-> TRUE, rows |-> rows]
  ELSE IF Len(r.games) = 0 THEN [err |-> FALSE, rows |-> rows]
  ELSE LET saved == SaveGames(rows, r.games, t, failAt) IN
       IF saved.err THEN [err |-> TRUE, rows |-> saved.rows]
       ELSE [err |-> FALSE,
             rows |-> IF cleanupErr THEN saved.rows
                                    ELSE CleanupOldGames(saved.rows, t)]

\* The handler's call of RefreshGames returns: the scrape result arrives and
\* is saved.  !refresh reports a failure with SendErrorMessage, /refresh
\* with a follow-up to the caller.
ManualRefresh ==
  /\ mpc = "refresh"
  /\ \E r \in ScrapeResults :
     \E failAt \in (IF r.err THEN {0} ELSE FailPoints(r.games)) :
     \E cleanupErr \in (IF r.err \/ failAt # 0 THEN {FALSE} ELSE BOOLEAN) :
       LET res == RefreshGames(store, now, r, failAt, cleanupErr)
       IN  /\ store' = res.rows
           /\ IF res.err
              THEN ManualReturn(mKind = "msg")
              ELSE /\ mpc' = "list"
                   /\ UNCHANGED errorMessages
  /\ UNCHANGED <<now, lastCheck, configVars, timerVars, mKind, mChan, manuals,
                 delivered>>

\* handleRefreshSlashCommand / handleRefreshCommand after RefreshGames:
\* GetActiveGames, then the whole active set is sent - to the command's
\* channel by /refresh, through SendGameUpdates by !refresh
ManualList ==
  /\ mpc = "list"
  /\ \/ /\ ManualReturn(mKind = "msg")
        /\ UNCHANGED delivered
     \/ \E cur \in GetActiveGames(store, now) :
          LET games == NewGameCollection(cur) IN
          IF ~HasGames(games)
          THEN /\ ManualReturn(FALSE)
               /\ UNCHANGED delivered
          ELSE IF mKind = "slash"
          THEN \E k \in 0..Len(Messages(games)) :
                 /\ delivered' = Record(delivered, SendToChannel(games, mChan, k))
                 /\ ManualReturn(FALSE)
          ELSE \E cfgErr \in BOOLEAN :
               \E upTo \in SendOutcomes(games, cfgErr) :
                 LET r == SendGameUpdates(games, serverConfigs, channelID,
                                          cfgErr, upTo)
                 IN  /\ delivered' = Record(delivered, r.sent)
                     /\ ManualReturn(r.err # "none")
  /\ UNCHANGED <<store, now, lastCheck, configVars, timerVars, mKind, mChan,
                 manuals>>

\* main returns once Run has returned: the process ends and takes the
\* handler goroutine with it, wherever that is; a transaction it had open
\* is never committed
Exit ==
  /\ tpc = "stopped"
  /\ mpc \in {"refresh", "list"}
  /\ mpc' = "killed"
  /\ UNCHANGED <<store, now, lastCheck, configVars, timerVars, mKind, mChan,
                 manuals, delivered, errorMessages>>

Next ==
  \/ RunStart
  \/ TimerScrape
  \/ TimerSave
  \/ TimerSend
  \/ Tick
  \/ Stop
  \/ ManualStart
  \/ ManualRefresh
  \/ ManualList
  \/ Exit

Spec == Init /\ [][Next]_vars

\* Run is one goroutine that goes from call to call, and every call of
\* performGameCheck comes back (the scraper runs under a timeout)
FairSpec ==
  /\ Spec
  /\ WF_vars(RunStart)
  /\ WF_vars(TimerScrape)
  /\ WF_vars(TimerSave)
  /\ WF_vars(TimerSend)

TypeOK ==
  /\ tpc \in {"new", "scrape", "save", "send", "idle", "stopped"}
  /\ mpc \in {"idle", "refresh", "list", "killed"}
  /\ ticks + manuals \in 0..MaxCycles

\* ------------------------------------------------- the store on its own
\* Database.SaveGames called with any snapshot, failing at any point or not
\* at all.  tScraped keeps the batch and tOutcome how the call returned.
StoreSave ==
  /\ \E games \in Batches :
     \E failAt \in FailPoints(games) :
       LET r == SaveGames(store, games, now, failAt)
       IN  /\ store' = r.rows
           /\ tScraped' = games
           /\ tOutcome' = IF r.err THEN "store_error" ELSE "ok"
  /\ UNCHANGED <<now, lastCheck, configVars, tpc, tNew, ticks, manualVars,
                 delivered, errorMessages>>

\* Six hours pass between two calls
StoreTick ==
  /\ ticks < MaxCycles
  /\ ticks' = ticks + 1
  /\ now' = now + TickHours
  /\ tScraped' = <<>>
  /\ tOutcome' = "none"
  /\ UNCHANGED <<store, lastCheck, configVars, tpc, tNew, manualVars,
                 delivered, errorMessages>>

StoreNext == StoreSave \/ StoreTick

StoreInit == Init /\ serverConfigs = {}

SpecStore == StoreInit /\ [][StoreNext]_vars

\* ------------------------------------- the same snapshot, two checks running
\* Two scheduled checks six hours apart that fetch the same snapshot and
\* fail nowhere, after an earlier check that ended at hour 0.  tScraped holds
\* the snapshot, ticks counts the checks done, tNew is what the last one
\* reported.
Zones      == {-5, 0, 2}
Strategies == {"difference", "created"}

\* What the earlier check left in the store
PriorStores ==
  {{}} \cup { TxAfter({}, P, 0, Len(P)) : P \in CycleSnapshots }

RefetchInit ==
  /\ store \in PriorStores
  /\ now = TickHours
  /\ lastCheck = 0
  /\ \E cfg \in Configurations : serverConfigs = cfg[1] /\ channelID = cfg[2]
  /\ localZone \in Zones
  /\ strategy \in Strategies
  /\ timeout = SetTimeout
  /\ rl = NewRateLimiter
  /\ metrics = NewMetrics
  /\ tpc = "idle"
  /\ tScraped \in Snapshots
  /\ tNew = EmptyCollection
  /\ tOutcome = "none"
  /\ ticks = 0
  /\ mpc = "idle"
  /\ mKind = "slash"
  /\ mChan = "c1"
  /\ manuals = 0
  /\ delivered = [k \in AllKeys, c \in AllChannels |-> 0]
  /\ errorMessages = 0

\* Every send of SendGameUpdates succeeds
AllSent(coll) ==
  [c \in Destinations(serverConfigs, channelID) |-> Len(Messages(coll))]

\* The check returned nil; the ticker fires six hours later
CheckDone(newGames) ==
  /\ tNew' = newGames
  /\ delivered' = Record(delivered,
                         SendGameUpdates(newGames, serverConfigs, channelID,
                                         FALSE, AllSent(newGames)).sent)
  /\ lastCheck' = now
  /\ tOutcome' = "ok"
  /\ ticks' = ticks + 1
  /\ now' = now + TickHours

\* performGameCheck of internal/app/app.go, every call succeeding
CheckByDifference ==
  /\ strategy = "difference"
  /\ ticks < 2
  /\ \E cur \in GetActiveGames(store, now) :
       CheckDone(findNewGames(tScraped, NewGameCollection(cur)))
  /\ store' = SaveGames(store, tScraped, now, 0).rows
  /\ UNCHANGED <<configVars, tpc, tScraped, manualVars, errorMessages>>

\* performGameCheck of the revision that asks the store for the rows created
\* since lastCheck, every call succeeding
CheckByCreationTime ==
  /\ strategy = "created"
  /\ ticks < 2
  /\ \E cleanupErr \in BOOLEAN :
       LET res == RefreshGames(store, now, [err |-> FALSE, games |-> tScraped],
                               0, cleanupErr)
       IN  /\ store' = res.rows
           /\ \E games \in GetNewGames(res.rows, lastCheck, localZone) :
                CheckDone(NewGameCollection(games))
  /\ UNCHANGED <<configVars, tpc, tScraped, manualVars, errorMessages>>

RefetchNext == CheckByDifference \/ CheckByCreationTime

SpecRefetch == RefetchInit /\ [][RefetchNext]_vars

\* ------------------------------------------------- the queries on their own
\* Saves and waits build a store; GetActiveGames, GetNewGamesSince and the
\* detector are then applied to it.  tScraped holds the list the collection
\* was built from, tNew the collection, tOutcome the operation that ran,
\* lastCheck the argument of GetNewGamesSince, ticks the saves and waits.
Sinces == {0, TickHours}

Waits == {TickHours, ActiveHours - StaleHours}

\* The process runs in UTC
QueryInit ==
  /\ store = {}
  /\ now = 0
  /\ lastCheck = 0
  /\ serverConfigs = {}
  /\ channelID = LegacyChannel
  /\ localZone = 0
  /\ strategy = "created"
  /\ timeout = SetTimeout
  /\ rl = NewRateLimiter
  /\ metrics = NewMetrics
  /\ tpc = "idle"
  /\ tScraped = <<>>
  /\ tNew = EmptyCollection
  /\ tOutcome = "none"
  /\ ticks = 0
  /\ mpc = "idle"
  /\ mKind = "slash"
  /\ mChan = "c1"
  /\ manuals = 0
  /\ delivered = [k \in AllKeys, c \in AllChannels |-> 0]
  /\ errorMessages = 0

queryVars == <<configVars, tpc, manualVars, delivered, errorMessages>>

\* No query has run since the last save or wait (a query changes nothing a
\* later query reads)
Unqueried == tOutcome \in {"none", "saved"}

\* Database.SaveGames succeeds
QuerySave ==
  /\ ticks < MaxQuerySteps
  /\ \E S \in CycleSnapshots :
       /\ store' = SaveGames(store, S, now, 0).rows
       /\ tScraped' = S
  /\ tNew' = EmptyCollection
  /\ tOutcome' = "saved"
  /\ ticks' = ticks + 1
  /\ UNCHANGED <<now, lastCheck, queryVars>>

\* Time passes with no save
QueryWait ==
  /\ ticks < MaxQuerySteps
  /\ \E d \in Waits : now' = now + d
  /\ tScraped' = <<>>
  /\ tNew' = EmptyCollection
  /\ tOutcome' = "none"
  /\ ticks' = ticks + 1
  /\ UNCHANGED <<store, lastCheck, queryVars>>

\* GameService.GetActiveGames
QueryActive ==
  /\ Unqueried
  /\ \E cur \in GetActiveGames(store, now) :
       /\ tScraped' = cur
       /\ tNew' = NewGameCollection(cur)
  /\ tOutcome' = "active"
  /\ UNCHANGED <<store, now, ticks, lastCheck, queryVars>>

\* GameService.GetNewGamesSince(since); lastCheck keeps the argument
QueryCreatedSince ==
  /\ Unqueried
  /\ \E since \in Sinces :
     \E games \in GetNewGames(store, since, localZone) :
       /\ lastCheck' = since
       /\ tScraped' = games
       /\ tNew' = NewGameCollection(games)
  /\ tOutcome' = "created"
  /\ UNCHANGED <<store, now, ticks, queryVars>>

\* App.findNewGames on a fetched snapshot and the active games
QueryDetect ==
  /\ Unqueried
  /\ \E S \in Snapshots :
     \E cur \in GetActiveGames(store, now) :
       /\ tScraped' = S
       /\ tNew' = findNewGames(S, NewGameCollection(cur))
  /\ tOutcome' = "new"
  /\ UNCHANGED <<store, now, ticks, lastCheck, queryVars>>

QueryNext ==
  \/ QuerySave
  \/ QueryWait
  \/ QueryActive
  \/ QueryCreatedSince
  \/ QueryDetect

SpecQuery == QueryInit /\ [][QueryNext]_vars

\* ----------------------------------------- the two ways to run a refresh
\* From one store and one fetched snapshot (tScraped), either the
\* scheduler's performGameCheck runs or a refresh command is handled, every
\* call succeeding.  tOutcome tells which one ran.
PathInit ==
  /\ store \in PriorStores
  /\ now = TickHours
  /\ lastCheck = 0
  /\ \E cfg \in Configurations : serverConfigs = cfg[1] /\ channelID = cfg[2]
  /\ localZone = 0
  /\ strategy = "difference"
  /\ timeout = SetTimeout
  /\ rl = NewRateLimiter
  /\ metrics = NewMetrics
  /\ tpc = "idle"
  /\ tScraped \in Snapshots
  /\ tNew = EmptyCollection
  /\ tOutcome = "none"
  /\ ticks = 0
  /\ mpc = "idle"
  /\ mKind \in {"slash", "msg"}
  /\ mChan = IF mKind = "slash" THEN "c1" ELSE channelID
  /\ manuals = 0
  /\ delivered = [k \in AllKeys, c \in AllChannels |-> 0]
  /\ errorMessages = 0

\* What performGameCheck of internal/app/app.go does to the store, to the
\* channels and to lastCheck
TimerEffect ==
  \E cur \in GetActiveGames(store, now) :
    LET newGames == findNewGames(tScraped, NewGameCollection(cur))
    IN  /\ store' = SaveGames(store, tScraped, now, 0).rows
        /\ tNew' = newGames
        /\ delivered' =
             IF HasGames(newGames)
             THEN Record(delivered,
                         SendGameUpdates(newGames, serverConfigs, channelID,
                                         FALSE, AllSent(newGames)).sent)
             ELSE delivered
        /\ lastCheck' = now

\* What handleRefreshSlashCommand / handleRefreshCommand do: RefreshGames,
\* GetActiveGames, the active games sent; nothing is classified and
\* lastCheck is not theirs to write
ManualEffect ==
  LET res == RefreshGames(store, now, [err |-> FALSE, games |-> tScraped],
                          0, FALSE)
  IN  /\ store' = res.rows
      /\ tNew' = EmptyCollection
      /\ \E cur \in GetActiveGames(res.rows, now) :
           LET games == NewGameCollection(cur) IN
           delivered' =
             IF ~HasGames(games) THEN delivered
             ELSE IF mKind = "slash"
             THEN Record(delivered,
                         SendToChannel(games, mChan, Len(Messages(games))))
             ELSE Record(delivered,
                         SendGameUpdates(games, serverConfigs, channelID,
                                         FALSE, AllSent(games)).sent)
      /\ lastCheck' = lastCheck

pathVars == <<now, configVars, tpc, tScraped, ticks, manualVars, errorMessages>>

PathTimer ==
  /\ tOutcome = "none"
  /\ TimerEffect
  /\ tOutcome' = "timer"
  /\ UNCHANGED pathVars

PathManual ==
  /\ tOutcome = "none"
  /\ ManualEffect
  /\ tOutcome' = "manual"
  /\ UNCHANGED pathVars

PathNext == PathTimer \/ PathManual

SpecPaths == PathInit /\ [][PathNext]_vars

\* ---------------------------------------- a record that is never seen again
\* The scheduler over a month: the check at hour 0 stored ("A", "D1"), and
\* every later check, six hours apart, succeeds and fetches a snapshot that
\* does not list it.
AbsentSnapshots ==
  { <<g>> : g \in { h \in GameUniverse : h.Title = "A" /\ h.FreeTo = "D2" } }

AgeingInit ==
  /\ store = TxAfter({}, << Game("A", "i1", StatusFreeNow, "", "D1") >>, 0, 1)
  /\ now = TickHours
  /\ lastCheck = 0
  /\ \E cfg \in Configurations : serverConfigs = cfg[1] /\ channelID = cfg[2]
  /\ localZone = 0
  /\ strategy \in Strategies
  /\ timeout = SetTimeout
  /\ rl = NewRateLimiter
  /\ metrics = NewMetrics
  /\ tpc = "idle"
  /\ tScraped = <<>>
  /\ tNew = EmptyCollection
  /\ tOutcome = "none"
  /\ ticks = 0
  /\ mpc = "idle"
  /\ mKind = "slash"
  /\ mChan = "c1"
  /\ manuals = 0
  /\ delivered = [k \in AllKeys, c \in AllChannels |-> 0]
  /\ errorMessages = 0

\* performGameCheck of internal/app/app.go: the store is written by
\* SaveGames alone
AgeByDifference ==
  /\ strategy = "difference"
  /\ ticks < MaxAgeCycles
  /\ \E S \in AbsentSnapshots :
       /\ \E cur \in GetActiveGames(store, now) :
            CheckDone(findNewGames(S, NewGameCollection(cur)))
       /\ store' = SaveGames(store, S, now, 0).rows
       /\ tScraped' = S
  /\ UNCHANGED <<configVars, tpc, manualVars, errorMessages>>

\* performGameCheck of the creation-time revision: RefreshGames saves and
\* then runs CleanupOldGames
AgeByCreationTime ==
  /\ strategy = "created"
  /\ ticks < MaxAgeCycles
  /\ \E S \in AbsentSnapshots :
       LET res == RefreshGames(store, now, [err |-> FALSE, games |-> S], 0, FALSE)
       IN  /\ store' = res.rows
           /\ tScraped' = S
           /\ \E games \in GetNewGames(res.rows, lastCheck, localZone) :
                CheckDone(NewGameCollection(games))
  /\ UNCHANGED <<configVars, tpc, manualVars, errorMessages>>

AgeingNext == AgeByDifference \/ AgeByCreationTime

SpecAgeing == AgeingInit /\ [][AgeingNext]_vars

\* ------------------------------------------- checks that fail at the fetch
\* After a check that ended at hour 0 and announced what it stored, up to
\* MaxFailures scheduled checks fail in ScrapeGames, six hours apart, and
\* the next one succeeds.  errorMessages counts the failed checks (Run
\* reports each with SendErrorMessage), ticks the successful one.

\* UTC-5, UTC, UTC+2 and UTC+13 (Pacific/Auckland in summer)
GapZones == Zones \cup {13}

\* What the earlier check stored: records of a recognised status only
GapStores ==
  {{}} \cup { TxAfter({}, P, 0, Len(P)) :
                P \in { Q \in CycleSnapshots :
                          \A i \in 1..Len(Q) : IsFreeNow(Q[i]) \/ IsComingSoon(Q[i]) } }

GapInit ==
  /\ store \in GapStores
  /\ now = TickHours
  /\ lastCheck = 0
  /\ \E cfg \in Configurations : serverConfigs = cfg[1] /\ channelID = cfg[2]
  /\ localZone \in GapZones
  /\ strategy \in Strategies
  /\ timeout = SetTimeout
  /\ rl = NewRateLimiter
  /\ metrics = NewMetrics
  /\ tpc = "idle"
  /\ tScraped = <<>>
  /\ tNew = EmptyCollection
  /\ tOutcome = "none"
  /\ ticks = 0
  /\ mpc = "idle"
  /\ mKind = "slash"
  /\ mChan = "c1"
  /\ manuals = 0
  /\ delivered = [k \in AllKeys, c \in AllChannels |-> 0]
  /\ errorMessages = 0

\* performGameCheck returns the error of ScrapeGames (of RefreshGames in
\* the creation-time revision); the ticker fires six hours later
GapFail ==
  /\ ticks = 0
  /\ errorMessages < MaxFailures
  /\ LET r == [err |-> TRUE, games |-> <<>>] IN
       /\ AfterScrape(r) = "fetch_error"
       /\ store' = IF strategy = "created"
                   THEN RefreshGames(store, now, r, 0, FALSE).rows
                   ELSE store
  /\ TimerReturn("fetch_error", FALSE)
  /\ now' = now + TickHours
  /\ UNCHANGED <<configVars, ticks, manualVars, delivered>>

\* performGameCheck of internal/app/app.go succeeds
GapCheckByDifference ==
  /\ strategy = "difference"
  /\ ticks = 0
  /\ \E S \in Snapshots \ {<<>>} :
       /\ \E cur \in GetActiveGames(store, now) :
            CheckDone(findNewGames(S, NewGameCollection(cur)))
       /\ store' = SaveGames(store, S, now, 0).rows
       /\ tScraped' = S
  /\ UNCHANGED <<configVars, tpc, manualVars, errorMessages>>

\* performGameCheck of the creation-time revision succeeds
GapCheckByCreationTime ==
  /\ strategy = "created"
  /\ ticks = 0
  /\ \E S \in Snapshots \ {<<>>} :
       LET res == RefreshGames(store, now, [err |-> FALSE, games |-> S], 0, FALSE)
       IN  /\ store' = res.rows
           /\ tScraped' = S
           /\ \E games \in GetNewGames(res.rows, lastCheck, localZone) :
                CheckDone(NewGameCollection(games))
  /\ UNCHANGED <<configVars, tpc, manualVars, errorMessages>>

GapNext == GapFail \/ GapCheckByDifference \/ GapCheckByCreationTime

SpecGap == GapInit /\ [][GapNext]_vars

\* ------------------------------------------------- the clock during a check
\* Run with the time a check takes: the clock, read in whole hours, may pass
\* an hour boundary between the ticker event that starts performGameCheck
\* and its return.  CheckBegins is the start of a check and CheckReturns the
\* rest of performGameCheck with the clock reading at its end, so in a
\* CheckReturns step the unprimed now is the time the check started.
Elapsed == {0, 1}

ClockInit ==
  /\ Init

\* Run: the initial check, or case <-ticker.C
CheckBegins ==
  /\ \/ /\ tpc = "new"
        /\ UNCHANGED <<now, ticks>>
     \/ /\ tpc = "idle"
        /\ ticks + manuals < MaxCycles
        /\ ticks' = ticks + 1
        /\ \E d \in Elapsed : now' = now + TickHours - d
  /\ tpc' = "scrape"
  /\ tOutcome' = "none"
  /\ UNCHANGED <<store, lastCheck, configVars, tScraped, tNew, manualVars,
                 delivered, errorMessages>>

\* performGameCheck of internal/app/app.go from ScrapeGames to its return,
\* with every send succeeding; a.lastCheck = time.Now() is its last
\* statement
CheckReturns ==
  /\ tpc = "scrape"
  /\ \E d \in Elapsed : now' = now + d
  /\ tpc' = "idle"
  /\ tScraped' = <<>>
  /\ \E r \in ScrapeResults :
       IF AfterScrape(r) = "fetch_error"
       THEN /\ tOutcome' = "fetch_error"
            /\ errorMessages' = errorMessages + 1
            /\ UNCHANGED <<store, lastCheck, tNew, delivered>>
       ELSE \E cur \in GetActiveGames(store, now) :
            \E failAt \in {0, 1} :
              LET newGames == findNewGames(r.games, NewGameCollection(cur))
                  saved    == SaveGames(store, r.games, now, failAt)
              IN  /\ store' = saved.rows
                  /\ IF AfterSave(saved.err, newGames) = "store_error"
                     THEN /\ tOutcome' = "store_error"
                          /\ errorMessages' = errorMessages + 1
                          /\ UNCHANGED <<lastCheck, tNew, delivered>>
                     ELSE /\ tOutcome' = "ok"
                          /\ tNew' = newGames
                          /\ delivered' =
                               Record(delivered,
                                      SendGameUpdates(newGames, serverConfigs,
                                                      channelID, FALSE,
                                                      AllSent(newGames)).sent)
                          /\ lastCheck' = now'
                          /\ UNCHANGED errorMessages
  /\ UNCHANGED <<configVars, ticks, manualVars>>

\* A refresh command between two checks: GameService.RefreshGames
ClockRefresh ==
  /\ tpc = "idle"
  /\ ticks + manuals < MaxCycles
  /\ manuals' = manuals + 1
  /\ \E d \in Elapsed : now' = now + d
  /\ \E r \in ScrapeResults :
       store' = RefreshGames(store, now, r, 0, FALSE).rows
  /\ UNCHANGED <<lastCheck, configVars, timerVars, mpc, mKind, mChan,
                 delivered, errorMessages>>

ClockNext == CheckBegins \/ CheckReturns \/ ClockRefresh

SpecClock == ClockInit /\ [][ClockNext]_vars

\* --------------------------------------------------------------- the fetch
\* One call of ScrapeGames by performGameCheck.  now is the seconds since
\* the call, ticks the attempt, tScraped the variable games, tOutcome how
\* the last attempt ended ("deadline", "error", "empty", "games") and, once
\* the check has returned, how it returned.

\* An int64 as its eight bytes, lowest first (two's complement)
Bytes64(n) ==
  [i \in 1..8 |-> IF i <= 4 THEN (n \div (256 ^ (i - 1))) % 256 ELSE 0]

\* The sum of a[i] * b[k + 1 - i] for i in 1..upTo
RECURSIVE ColumnSum(_, _, _, _)
ColumnSum(a, b, k, upTo) ==
  IF upTo = 0 THEN 0
  ELSE a[upTo] * b[k + 1 - upTo] + ColumnSum(a, b, k, upTo - 1)

\* Bytes k..8 of the product, carry coming from byte k - 1
RECURSIVE MulBytes(_, _, _, _)
MulBytes(a, b, k, carry) ==
  IF k > 8 THEN <<>>
  ELSE LET t == ColumnSum(a, b, k, k) + carry
       IN  <<t % 256>> \o MulBytes(a, b, k + 1, t \div 256)

\* Multiplication of two int64 as Go does it: the low 64 bits of the product
Mul64(a, b) == MulBytes(a, b, 1, 0)

IsNegative64(a) == a[8] >= 128

\* a < b on bytes 1..i, both read as unsigned
RECURSIVE UnsignedLess(_, _, _)
UnsignedLess(a, b, i) ==
  IF i = 0 THEN FALSE
  ELSE IF a[i] # b[i] THEN a[i] < b[i]
  ELSE UnsignedLess(a, b, i - 1)

\* a < b as int64
Less64(a, b) ==
  IF IsNegative64(a) # IsNegative64(b) THEN IsNegative64(a)
  ELSE UnsignedLess(a, b, 8)

\* time.Second, a Duration of 1e9 nanoseconds
Second64 == Bytes64(10 ^ 9)

\* n * time.Second for a small n: the Duration getEnvDuration returns for
\* "<n>s", and 90*time.Second
Seconds64(n) == Mul64(Bytes64(n), Second64)

\* time.Duration(s.config.Timeout) * time.Second, where s.config.Timeout is
\* already a Duration
ScrapeTimeout(cfgTimeout) == Mul64(cfgTimeout, Second64)

\* SCRAPER_TIMEOUT settings: 5s, 60s, and unset
Timeouts == {5, SetTimeout, DefaultTimeout}

\* How long chromedp.Run takes when nothing stops it
AttemptSeconds == {3, 100}

\* The longest a call of ScrapeGames lasts here
LongestCall == Attempts * 100 + (Attempts - 1) * BackoffSeconds

\* The argument of context.WithTimeout for each setting
Deadlines == [t \in Timeouts |-> ScrapeTimeout(Seconds64(t))]

\* The Duration of e seconds since the call
ElapsedNanos == [e \in 0..LongestCall |-> Seconds64(e)]

\* The context of context.WithTimeout is done e seconds after the call
DeadlinePassed(cfgSeconds, e) ==
  ~Less64(ElapsedNanos[e], Deadlines[cfgSeconds])

\* What chromedp.Run leaves when it is not stopped: an error, or nil with
\* the list the script returned
AttemptResults ==
  { [err |-> TRUE, games |-> <<>>], [err |-> FALSE, games |-> <<>>] }
    \cup { [err |-> FALSE, games |-> S] : S \in CycleSnapshots }

\* An attempt accepted on a nil error alone
Scraped_AnyList(err, games) == ~err

\* if err == nil && len(games) > 0 { return games, nil }
Scraped(err, games) == ~err /\ Len(games) > 0

ScrapeInit ==
  /\ store = {}
  /\ now = 0
  /\ lastCheck = 0
  /\ serverConfigs = {}
  /\ channelID = LegacyChannel
  /\ localZone = 0
  /\ strategy = "difference"
  /\ timeout \in Timeouts
  /\ rl = NewRateLimiter
  /\ metrics = NewMetrics
  /\ tpc = "scrape"
  /\ tScraped = <<>>
  /\ tNew = EmptyCollection
  /\ tOutcome = "none"
  /\ ticks = 0
  /\ mpc = "idle"
  /\ mKind = "slash"
  /\ mChan = "c1"
  /\ manuals = 0
  /\ delivered = [k \in AllKeys, c \in AllChannels |-> 0]
  /\ errorMessages = 0

scrapeVars == <<store, configVars, tNew, manualVars, delivered>>

\* performGameCheck calls ScrapeGames: the context with its deadline, var
\* games, attempt := 1
ScrapeCall ==
  /\ tpc = "scrape"
  /\ tpc' = "attempt"
  /\ ticks' = 1
  /\ tScraped' = <<>>
  /\ UNCHANGED <<now, lastCheck, tOutcome, errorMessages, scrapeVars>>

\* ScrapeGames returns (games, nil): performGameCheck goes on
ScrapeReturnsGames(games) ==
  /\ tpc' = "detect"
  /\ tScraped' = games
  /\ UNCHANGED <<lastCheck, errorMessages>>

\* The attempt was not accepted: the pause before the next one, or after
\* the last one the error, which performGameCheck returns to Run
ScrapeAttemptFails(games) ==
  IF ticks < Attempts
  THEN /\ tpc' = "backoff"
       /\ tScraped' = games
       /\ UNCHANGED <<lastCheck, errorMessages>>
  ELSE /\ AfterScrape([err |-> TRUE, games |-> <<>>]) = "fetch_error"
       /\ tpc' = "idle"
       /\ tScraped' = <<>>
       /\ errorMessages' = errorMessages + 1
       /\ UNCHANGED lastCheck

\* One chromedp.Run(ctx, ...) and the test of its result
ScrapeAttempt ==
  /\ tpc = "attempt"
  /\ \E d \in AttemptSeconds :
     \E r \in AttemptResults :
       IF DeadlinePassed(timeout, now)
       THEN /\ now' = now
            /\ tOutcome' = IF ticks < Attempts THEN "deadline" ELSE "fetch_error"
            /\ ScrapeAttemptFails(tScraped)
       ELSE IF DeadlinePassed(timeout, now + d)
       THEN /\ now' = CHOOSE e \in now..(now + d) :
                        /\ DeadlinePassed(timeout, e)
                        /\ \A f \in now..(e - 1) : ~DeadlinePassed(timeout, f)
            /\ tOutcome' = IF ticks < Attempts THEN "deadline" ELSE "fetch_error"
            /\ ScrapeAttemptFails(tScraped)
       ELSE /\ now' = now + d
            /\ IF Scraped(r.err, r.games)
               THEN /\ tOutcome' = "games"
                    /\ ScrapeReturnsGames(r.games)
               ELSE /\ tOutcome' = IF ticks = Attempts THEN "fetch_error"
                                   ELSE IF r.err THEN "error" ELSE "empty"
                    /\ ScrapeAttemptFails(IF r.err THEN tScraped ELSE r.games)
  /\ UNCHANGED <<ticks, scrapeVars>>

\* time.Sleep(5 * time.Second), then attempt++
ScrapeBackoff ==
  /\ tpc = "backoff"
  /\ now' = now + BackoffSeconds
  /\ ticks' = ticks + 1
  /\ tpc' = "attempt"
  /\ UNCHANGED <<lastCheck, tScraped, tOutcome, errorMessages, scrapeVars>>

ScrapeNext == ScrapeCall \/ ScrapeAttempt \/ ScrapeBackoff

SpecScrape == ScrapeInit /\ [][ScrapeNext]_vars

\* ScrapeGames is one goroutine going from statement to statement;
\* chromedp.Run returns when the page is done or the context is
FairScrape ==
  /\ SpecScrape
  /\ WF_vars(ScrapeCall)
  /\ WF_vars(ScrapeAttempt)
  /\ WF_vars(ScrapeBackoff)

\* ------------------------------------- a reader beside a running SaveGames
\* SaveGames statement by statement, with /games commands reading beside it.
\* store is the committed table.  tpc is "tx" between Begin and Commit or
\* Rollback, ticks the statements the transaction has executed (the stale
\* mark, then one upsert per game), tScraped the batch, manuals the
\* transactions begun; mpc is the position of the command and tNew the
\* collection it was given.

\* Every statement written to the table as it is executed
Published_PerStatement(rows, games, t, k) ==
  IF k = 0 THEN rows ELSE TxAfter(rows, games, t, k - 1)

\* The table as d.db.Query reads it while the transaction has executed k
\* statements: the statements go through tx (tx.Exec, tx.Prepare and the
\* statement prepared on it) and reach the table at tx.Commit
Published(rows, games, t, k) == rows

TxInit == QueryInit

txVars == <<configVars, lastCheck, mKind, mChan, delivered, errorMessages>>

\* d.db.Begin, some time after the previous save
TxBegin ==
  /\ tpc = "idle"
  /\ manuals < MaxQuerySteps
  /\ \E d \in Waits : now' = now + d
  /\ \E S \in CycleSnapshots : tScraped' = S
  /\ tpc' = "tx"
  /\ ticks' = 0
  /\ manuals' = manuals + 1
  /\ tOutcome' = "none"
  /\ UNCHANGED <<store, mpc, tNew, txVars>>

\* The next statement of the transaction succeeds
TxExec ==
  /\ tpc = "tx"
  /\ ticks < Len(tScraped) + 1
  /\ ticks' = ticks + 1
  /\ UNCHANGED <<store, now, tpc, tScraped, manuals, tOutcome, mpc, tNew,
                 txVars>>

\* tx.Commit succeeds
TxCommit ==
  /\ tpc = "tx"
  /\ ticks = Len(tScraped) + 1
  /\ store' = SaveGames(store, tScraped, now, 0).rows
  /\ tpc' = "idle"
  /\ ticks' = 0
  /\ tOutcome' = "saved"
  /\ UNCHANGED <<now, tScraped, manuals, mpc, tNew, txVars>>

\* The next statement, or the commit, fails: the deferred tx.Rollback
TxRollback ==
  /\ tpc = "tx"
  /\ store' = SaveGames(store, tScraped, now, ticks + 1).rows
  /\ tpc' = "idle"
  /\ ticks' = 0
  /\ tOutcome' = "store_error"
  /\ UNCHANGED <<now, tScraped, manuals, mpc, tNew, txVars>>

\* handleGamesSlashCommand is given the active games
GamesCommand ==
  /\ mpc = "idle"
  /\ \E cur \in GetActiveGames(Published(store, tScraped, now, ticks), now) :
       tNew' = NewGameCollection(cur)
  /\ mpc' = "list"
  /\ UNCHANGED <<store, now, tpc, tScraped, tOutcome, ticks, manuals, txVars>>

\* handleGamesSlashCommand is given an error (the query failed)
GamesCommandFails ==
  /\ mpc = "idle"
  /\ tNew' = EmptyCollection
  /\ mpc' = "list_error"
  /\ UNCHANGED <<store, now, tpc, tScraped, tOutcome, ticks, manuals, txVars>>

\* The reply is sent and the handler returns
GamesCommandReturn ==
  /\ mpc \in {"list", "list_error"}
  /\ tNew' = EmptyCollection
  /\ mpc' = "idle"
  /\ UNCHANGED <<store, now, tpc, tScraped, tOutcome, ticks, manuals, txVars>>

TxNext ==
  \/ TxBegin
  \/ TxExec
  \/ TxCommit
  \/ TxRollback
  \/ GamesCommand
  \/ GamesCommandFails
  \/ GamesCommandReturn

SpecTx == TxInit /\ [][TxNext]_vars

\* ------------------------------------------------------------- properties
KeysOf(rows)       == { RowKey(r) : r \in rows }
NoneDelivered      == \A k \in AllKeys, c \in AllChannels : delivered[k, c] = 0
TimerInCycle       == tpc \in {"scrape", "save", "send"}
TimerFetchOrUpsert == tpc \in {"scrape", "save"}
ManualFetchOrUpsert == mpc = "refresh"
Quiescent          == tpc \in {"idle", "stopped"} /\ mpc \in {"idle", "killed"}

\* C1: a promotion record (title, availableUntil) is handed to the Notifier
\* for a given destination at most once over the process lifetime (no row is
\* purged within the horizon of this model).
C1_NoDuplicateNotification ==
  \A k \in AllKeys, c \in AllChannels : delivered[k, c] <= 1

\* C2: a record never becomes known (stored and active, hence never again
\* classified as new) without having been announced: once every cycle has
\* returned, each active stored record has been delivered to each
\* configured destination.
C2_NoMissedNotification ==
  Quiescent =>
    \A r \in ActiveRows(store, now) :
      \A c \in Destinations(serverConfigs, channelID) :
        delivered[RowKey(r), c] >= 1

\* C5: at most one cycle's fetch and store write is in flight: a refresh
\* command never runs RefreshGames while the ticker's performGameCheck is
\* between its scrape and its SaveGames, and vice versa.
C5_MutualExclusion == ~(TimerFetchOrUpsert /\ ManualFetchOrUpsert)

\* C6: in every cycle SendGameUpdates is invoked only after SaveGames has
\* committed: whenever performGameCheck is at its SendGameUpdates call, and
\* whenever it has just delivered, every record it hands over is a stored
\* row; a cycle that returns a store error has delivered nothing.
NewGamesStored == \A i \in 1..Len(Messages(tNew)) :
                    GameKey(Messages(tNew)[i]) \in KeysOf(store)

C6_NotifyOnlyCommitted ==
  [][ /\ (tpc' = "send" => NewGamesStored')
      /\ (tpc = "send" /\ delivered' # delivered /\ tpc' = "idle" => NewGamesStored)
      /\ (tpc = "save" /\ tpc' = "idle" /\ tOutcome' = "store_error"
            => delivered' = delivered) ]_vars

\* A cycle was aborted by a failed SaveGames after the detector had found a
\* new record, and nothing was ever delivered
C6_Witness ==
  /\ tpc = "idle" /\ tOutcome = "store_error"
  /\ store = {} /\ NoneDelivered /\ manuals = 0

\* C7: on Fetcher failure the cycle mutates no row, delivers no promotion,
\* reports through SendErrorMessage, leaves lastCheck unchanged and the
\* scheduler is back at its ticker wait.
C7_FetchFailureSkips ==
  [][ (tpc = "scrape" /\ tOutcome' = "fetch_error")
        => /\ tpc' = "idle"
           /\ store' = store
           /\ delivered' = delivered
           /\ lastCheck' = lastCheck
           /\ errorMessages' = errorMessages + 1 ]_vars

\* A scheduled cycle failed at fetch over a non-empty store, later than the
\* last successful check
C7_Witness ==
  /\ tpc = "idle" /\ tOutcome = "fetch_error"
  /\ store # {} /\ lastCheck < now /\ errorMessages >= 1

\* C8: no delivery failure makes the cycle count as failed: performGameCheck
\* never returns the error of a failed send.
C8_DeliveryFailureNotFatal == tOutcome # "notify_error"


\* Steps of performGameCheck, read off the scheduler's position
DetectorRan == tpc = "scrape" /\ tpc' = "save"
SaveCommitted == tpc = "save" /\ tpc' # "save" /\ tOutcome' # "store_error"

Recurs(r, g)   == r.title = g.Title /\ r.free_to # g.FreeTo
IsActiveKey(g) == GameKey(g) \in KeysOf(ActiveRows(store, now))
Listed(g)      == g.Status \in {StatusFreeNow, StatusComingSoon}

\* Both instances are rows of their own after the save
BothStoredAfter(r, g) ==
  \E r1, r2 \in store' : /\ r1 # r2
                         /\ RowKey(r1) = RowKey(r)
                         /\ RowKey(r2) = GameKey(g)

LastOfKey(games, i) ==
  \A j \in (i + 1)..Len(games) : GameKey(games[j]) # GameKey(games[i])

SameMutableFields(r, g) ==
  r.image_url = g.ImageURL /\ r.status = g.Status /\ r.free_from = g.FreeFrom

\* Every record of the batch is in rows, seen at t, with the fields of the
\* last record of its key
Applied(rows, games, t) ==
  \A i \in 1..Len(games) :
    \E r \in rows : /\ RowKey(r) = GameKey(games[i])
                    /\ r.last_seen = t
                    /\ LastOfKey(games, i) => SameMutableFields(r, games[i])

\* C9: SaveGames is atomic: a call that returns an error (at the stale
\* mark, at any Exec or at Commit) leaves the store exactly as it was, each
\* row's last_seen included; a call that returns nil has applied every
\* record of the batch.
C9_SaveGamesAtomic ==
  [][ /\ tOutcome' = "store_error" => store' = store
      /\ tOutcome' = "ok" => Applied(store', tScraped', now') ]_vars

\* SaveGames failed over a store with rows, on a batch that has a record the
\* store does not hold; the rows were last seen at an earlier save
C9_Witness ==
  /\ tOutcome = "store_error"
  /\ store # {}
  /\ \E i \in 1..Len(tScraped) : GameKey(tScraped[i]) \notin KeysOf(store)
  /\ \A r \in store : r.last_seen < now

UniqueKeys(rows) == \A r1, r2 \in rows : RowKey(r1) = RowKey(r2) => r1 = r2

BatchKeys(games) == { GameKey(games[i]) : i \in 1..Len(games) }

\* The i-th record went in as a fresh row
Inserted(old, new, g, t) ==
  \E r \in new : RowKey(r) = GameKey(g) /\ r.created_at = t /\ r.last_seen = t

\* The i-th record updated its row in place
Updated(old, new, games, i, t) ==
  \E r \in old : \E q \in new :
    /\ RowKey(r) = GameKey(games[i]) /\ RowKey(q) = RowKey(r)
    /\ q.created_at = r.created_at
    /\ q.last_seen = t
    /\ LastOfKey(games, i) => SameMutableFields(q, games[i])

\* C10: the store never holds two rows of one (title, free_to); a saved
\* record whose key was absent becomes a row created now, one whose key was
\* present updates image, status and start marker and sets last_seen to now
\* and leaves created_at and the number of rows alone.
C10_OneRowPerKey ==
  /\ [] UniqueKeys(store)
  /\ [][ tOutcome' = "ok" =>
           /\ \A i \in 1..Len(tScraped') :
                IF GameKey(tScraped'[i]) \in KeysOf(store)
                THEN Updated(store, store', tScraped', i, now')
                ELSE Inserted(store, store', tScraped'[i], now')
           /\ Cardinality(store') =
                Cardinality(store)
                  + Cardinality(BatchKeys(tScraped') \ KeysOf(store)) ]_vars

\* One save both updated a row created at an earlier hour and inserted the
\* second instance of its title
C10_Witness ==
  /\ tOutcome = "ok"
  /\ Len(tScraped) = 2
  /\ \E r, q \in store : /\ r.title = q.title /\ r.free_to # q.free_to
                         /\ r.created_at < now /\ r.last_seen = now
                         /\ q.created_at = now

\* C4: the same snapshot fetched by two checks in a row, both succeeding:
\* the second check reports no new record, with the set-difference detector
\* and with the created-since-lastCheck query alike.
C4_IdempotentRefetch == ticks = 2 => ~HasGames(tNew)

\* ------------------------------------------------- ageing and retention
\* The rows of the record the ageing run never fetches again
AbsentRows == { r \in store : RowKey(r) = <<"A", "D1">> }

\* C11: a record absent from every snapshot since its last upsert is, with
\* checks running every six hours, no longer returned by GetActiveGames
\* once the 7-day window has passed since that upsert.
C11_AbsentAgesOut ==
  \A r \in AbsentRows :
    now - r.created_at > ActiveHours => r \notin ActiveRows(store, now)

\* C12: a record unseen in every snapshot for longer than the 30-day purge
\* window is deleted by the checks that follow.
C12_UnseenIsPurged ==
  \A r \in AbsentRows : ~(now - r.created_at > PurgeHours + TickHours)

\* ------------------------------------------------ collections and queries
\* out lists, in their order in inp, exactly the entries of inp at the
\* positions idx
OrderedSelection(out, inp, idx) ==
  /\ Len(out) = Cardinality(idx)
  /\ \E f \in [1..Len(out) -> idx] :
       /\ \A i, j \in 1..Len(out) : i < j => f[i] < f[j]
       /\ \A i \in 1..Len(out) : out[i] = inp[f[i]]

\* Positions of the list the collection was built from that belong in the
\* partition of status st: all of that status for a query result, those
\* whose (title, free_to) is not active for the detector
PartitionPositions(st) ==
  { j \in 1..Len(tScraped) :
      /\ tScraped[j].Status = st
      /\ tOutcome = "new" =>
           GameKey(tScraped[j]) \notin KeysOf(ActiveRows(store, now)) }

\* C13: a collection built by GetActiveGames, GetNewGamesSince or the
\* detector has in FreeNow exactly its Free Now records and in ComingSoon
\* exactly its Coming Soon records, each partition in input order, and no
\* record in both.
C13_PartitionCorrect ==
  tOutcome \in {"active", "created", "new"} =>
    /\ OrderedSelection(tNew.FreeNow, tScraped, PartitionPositions(StatusFreeNow))
    /\ OrderedSelection(tNew.ComingSoon, tScraped,
                        PartitionPositions(StatusComingSoon))
    /\ Range(tNew.FreeNow) \cap Range(tNew.ComingSoon) = {}

\* The detector was given a Coming Soon card ahead of a Free Now card and
\* put one record in each partition
C13_Witness ==
  /\ tOutcome = "new"
  /\ Len(tScraped) >= 2
  /\ tScraped[1].Status = StatusComingSoon
  /\ \E j \in 1..Len(tScraped) : tScraped[j].Status = StatusFreeNow
  /\ Len(tNew.FreeNow) = 1 /\ Len(tNew.ComingSoon) = 1

\* C14: a refresh command does to the store, to the channels and to
\* lastCheck what a scheduled check does from the same store with the same
\* snapshot, and classifies the same records as new.
C14_ManualSameAsTimer == [][ tOutcome' = "manual" => TimerEffect ]_vars

\* The step is a slash command's follow-up to its own channel
DirectReply == mpc = "list" /\ mpc' = "idle" /\ mKind = "slash"

\* The step is performGameCheck's call of SendGameUpdates
TimerBroadcast == tpc = "send" /\ tpc' = "idle"

\* C15: SendGameUpdates is only given what the detector reported as new in
\* the running check: every game message that reaches a channel, other than
\* a slash command's reply, is sent by performGameCheck and is one of its
\* newGames.
C15_BroadcastOnlyNew ==
  [][ \A k \in AllKeys, c \in AllChannels :
        delivered'[k, c] # delivered[k, c] =>
          \/ DirectReply
          \/ /\ TimerBroadcast
             /\ \E i \in 1..Len(Messages(tNew)) : GameKey(Messages(tNew)[i]) = k
    ]_vars

\* C16: Run does not return, and so neither closes the store nor ends the
\* process, while a check or a refresh command is in flight (Run reads the
\* stop channel only between checks, so the scheduler's own check is never
\* in flight then; the refresh command is the case at stake).
C16_ShutdownDrains == tpc = "stopped" => mpc = "idle"

ListsExactly(list, want) ==
  /\ Len(list) = Cardinality(want)
  /\ \E f \in [1..Len(list) -> want] :
       /\ \A i, j \in 1..Len(list) : i # j => f[i] # f[j]
       /\ \A i \in 1..Len(list) : list[i] = RowGame(f[i])

\* A save leaves the created_at of every row it finds as it was, so a row
\* created at or before t is in no later result of GetNewGames(t)
CreationIsKept ==
  \A r \in store : \A r2 \in store' :
    (r2.title = r.title /\ r2.free_to = r.free_to) =>
      /\ r2.created_at = r.created_at
      /\ \A t \in Sinces :
           r.created_at <= t =>
             \A games \in GetNewGames(store', t, localZone) :
               RowGame(r2) \notin Range(games)

ActiveCollections(rows, t) ==
  { NewGameCollection(cur) : cur \in GetActiveGames(rows, t) }

C21_GapRecovery ==
  [][ (errorMessages >= 1 /\ ticks = 0 /\ ticks' = 1) =>
        \A i \in 1..Len(tScraped') :
          ( /\ \A j \in 1..Len(tScraped') :
                 GameKey(tScraped'[j]) = GameKey(tScraped'[i]) =>
                   IsFreeNow(tScraped'[j]) \/ IsComingSoon(tScraped'[j])
            /\ GameKey(tScraped'[i]) \notin { RowKey(r) : r \in store } )
          => GameKey(tScraped'[i]) \in
               { GameKey(g) : g \in Range(tNew'.FreeNow)
                                      \cup Range(tNew'.ComingSoon) }
    ]_vars

\* C22: lastCheck is the process start time until a check has run, changes
\* only in the step that ends a check, never goes back, and after a check
\* that succeeded is the time at which that check started.
C22_LastCheckIsCycleStart ==
  /\ (lastCheck = now)
  /\ [][ /\ lastCheck' >= lastCheck
         /\ lastCheck' # lastCheck => (tpc = "scrape" /\ tpc' = "idle")
         /\ (tpc = "scrape" /\ tpc' = "idle" /\ tOutcome' = "ok") =>
              lastCheck' = now ]_vars

C27_DeadlineIsTimeout ==
  /\ Deadlines[timeout] = ElapsedNanos[timeout]
  /\ \A e \in 0..LongestCall : DeadlinePassed(timeout, e) <=> (e >= timeout)
  /\ tOutcome = "deadline" => now >= timeout

\* ------------------------------------------------------ the games command
\* interactionHandler "games" / messageHandler "!games", "!freegames": a
\* handler goroutine beside Run; the message handler only answers in the
\* configured channel
GamesStart ==
  /\ mpc = "idle"
  /\ tpc \notin {"new", "stopped"}
  /\ manuals < MaxCycles
  /\ \E kind \in {"slash", "msg"} :
     \E ch \in AllChannels :
       /\ kind = "msg" => (channelID # "" /\ ch = channelID)
       /\ kind = "slash" => ch = "c1"
       /\ mKind' = kind
       /\ mChan' = ch
  /\ mpc' = "games"
  /\ manuals' = manuals + 1
  /\ UNCHANGED <<store, now, lastCheck, configVars, timerVars, delivered,
                 errorMessages>>

\* The table once a listing has marked the rows it lists as seen
TableAfterListing_Seen(rows, t) ==
  { IF r \in ActiveRows(rows, t) THEN [r EXCEPT !.last_seen = t] ELSE r :
      r \in rows }

\* The table once Database.GetActiveGames has run: a SELECT, which writes
\* no row
TableAfterListing(rows, t) == rows

\* handleGamesSlashCommand / handleGamesCommand: GetActiveGames, then the
\* failure goes to the interaction (followUpInteraction) or, with
\* SendErrorMessage, to the configured channel the message came from; the
\* active set goes to the command's channel by /games, through
\* SendGameUpdates by !games
GamesList ==
  /\ mpc = "games"
  /\ store' = TableAfterListing(store, now)
  /\ \/ /\ ManualReturn(mKind = "msg")
        /\ UNCHANGED delivered
     \/ \E cur \in GetActiveGames(store, now) :
          LET games == NewGameCollection(cur) IN
          IF ~HasGames(games)
          THEN /\ ManualReturn(FALSE)
               /\ UNCHANGED delivered
          ELSE IF mKind = "slash"
          THEN \E k \in 0..Len(Messages(games)) :
                 /\ delivered' = Record(delivered, SendToChannel(games, mChan, k))
                 /\ ManualReturn(FALSE)
          ELSE \E cfgErr \in BOOLEAN :
               \E upTo \in SendOutcomes(games, cfgErr) :
                 LET r == SendGameUpdates(games, serverConfigs, channelID,
                                          cfgErr, upTo)
                 IN  /\ delivered' = Record(delivered, r.sent)
                     /\ ManualReturn(r.err # "none")
  /\ UNCHANGED <<now, lastCheck, configVars, timerVars, mKind, mChan,
                 manuals>>

ListNext ==
  \/ RunStart
  \/ TimerScrape
  \/ TimerSave
  \/ TimerSend
  \/ Tick
  \/ GamesStart
  \/ GamesList

SpecList == Init /\ [][ListNext]_vars

\* C24: the games command is read-only. The step in which its handler runs
\* GetActiveGames and answers leaves the stored rows, lastCheck and the
\* position of Run (with its check in progress, if any) as they were,
\* whether the query succeeded or failed; when nothing is active or the
\* query failed (the cases in which no game is sent) nothing is delivered to
\* any channel, the only report made with SendErrorMessage is that of a
\* message command, whose channel is the configured one, and a slash
\* command delivers to no channel but its own.
C24_GamesCommandReadOnly ==
  [][ (mpc = "games" /\ mpc' = "idle") =>
        /\ store' = store
        /\ lastCheck' = lastCheck
        /\ timerVars' = timerVars
        /\ now' = now
        /\ (ActiveRows(store, now) = {} => delivered' = delivered)
        /\ errorMessages' \in {errorMessages, errorMessages + 1}
        /\ (errorMessages' # errorMessages =>
              mKind = "msg" /\ mChan = channelID)
        /\ (mKind = "slash" =>
              \A k \in AllKeys, c \in AllChannels \ {mChan} :
                delivered'[k, c] = delivered[k, c]) ]_vars

\* A games command has returned beside a check in progress, the table
\* holding rows
C24_Witness ==
  /\ mpc = "idle"
  /\ manuals = 1
  /\ ticks = 1
  /\ tpc = "save"
  /\ store # {}
  /\ lastCheck = 0
  /\ errorMessages = 1

\* ---------------------------------------------------- findNewGames on its own
\* Records whose title or end marker holds the separator of the lookup key:
\* both are text of the page, the title of the h6 element and the end marker
\* what follows " - " in the period element
DetectGames ==
  { Game(t, "i1", st, "", to) :
      t \in {"A", "A|B"}, st \in {StatusFreeNow, StatusComingSoon, ""},
      to \in {"C", "B|C"} }

\* The table a check finds: empty, or one record stored by an earlier check
DetectStores ==
  {{}} \cup { TxAfter({}, <<g>>, 0, 1) : g \in DetectGames }

DetectInit ==
  /\ store \in DetectStores
  /\ now = TickHours
  /\ lastCheck = 0
  /\ serverConfigs = {}
  /\ channelID = LegacyChannel
  /\ localZone = 0
  /\ strategy = "difference"
  /\ timeout = SetTimeout
  /\ rl = NewRateLimiter
  /\ metrics = NewMetrics
  /\ tpc = "detect"
  /\ tScraped \in SeqsUpTo(DetectGames, MaxSnapLen)
  /\ tNew = EmptyCollection
  /\ tOutcome = "none"
  /\ ticks = 1
  /\ mpc = "idle"
  /\ mKind = "slash"
  /\ mChan = "c1"
  /\ manuals = 0
  /\ delivered = [k \in AllKeys, c \in AllChannels |-> 0]
  /\ errorMessages = 0

\* performGameCheck: GetActiveGames, NewGameCollection, findNewGames
DetectNew ==
  /\ tpc = "detect"
  /\ \E cur \in GetActiveGames(store, now) :
       tNew' = findNewGames(tScraped, NewGameCollection(cur))
  /\ tpc' = "save"
  /\ UNCHANGED <<store, now, lastCheck, configVars, tScraped, tOutcome, ticks,
                 manualVars, delivered, errorMessages>>

DetectNextStep ==
  \/ DetectNew

SpecDetect == DetectInit /\ [][DetectNextStep]_vars

\* The scraped records no active stored record equals in both Title and
\* FreeTo, in scraped order
NotStored(scraped, rows) ==
  SelectSeq(scraped,
            LAMBDA g : \A r \in rows : ~(r.title = g.Title /\ r.free_to = g.FreeTo))

\* C26: findNewGames(scraped, current) returns exactly the scraped records
\* for which no record of current has both an equal Title and an equal
\* FreeTo, each partition in scraped order: the key Title + "|" + FreeTo
\* never makes records of different (Title, FreeTo) count as the same
\* promotion.  (Read for the records of a recognised status, the only ones a
\* GameCollection can hold.)
C26_NewByTitleAndFreeTo ==
  tpc = "save" =>
    LET expected == NotStored(tScraped, ActiveRows(store, now)) IN
    /\ tNew.FreeNow = SelectSeq(expected, IsFreeNow)
    /\ tNew.ComingSoon = SelectSeq(expected, IsComingSoon)

appVars == <<store, now, lastCheck, serverConfigs, channelID, localZone,
             strategy, timeout, timerVars, manualVars, delivered,
             errorMessages>>

\* A panic ends the process
Running == rl.panic = "none"

\* Close: rl.mu.Lock()
CloseLock(k) ==
  /\ Running
  /\ rl.closer[k] = "idle"
  /\ rl.mu = ""
  /\ rl' = [rl EXCEPT !.mu = k, !.closer[k] = "test"]
  /\ UNCHANGED <<appVars, metrics>>

\* Close: if !rl.closed { rl.closed = true
CloseTest(k) ==
  /\ Running
  /\ rl.closer[k] = "test"
  /\ rl' = IF rl.closed
           THEN [rl EXCEPT !.closer[k] = "unlock"]
           ELSE [rl EXCEPT !.closed = TRUE, !.closer[k] = "cancel"]
  /\ UNCHANGED <<appVars, metrics>>

\* Close: rl.cancel()
CloseCancel(k) ==
  /\ Running
  /\ rl.closer[k] = "cancel"
  /\ rl' = [rl EXCEPT !.ctxDone = TRUE, !.closer[k] = "close"]
  /\ UNCHANGED <<appVars, metrics>>

\* Close: close(rl.tokens); closing a closed channel panics
CloseChannel(k) ==
  /\ Running
  /\ rl.closer[k] = "close"
  /\ rl' = IF rl.chClosed
           THEN [rl EXCEPT !.panic = "close of closed channel"]
           ELSE [rl EXCEPT !.chClosed = TRUE, !.closes = @ + 1,
                           !.closer[k] = "unlock"]
  /\ UNCHANGED <<appVars, metrics>>

\* Close: the deferred rl.mu.Unlock(), and the return
CloseUnlock(k) ==
  /\ Running
  /\ rl.closer[k] = "unlock"
  /\ rl' = [rl EXCEPT !.mu = "", !.closer[k] = "done", !.returned = TRUE]
  /\ UNCHANGED <<appVars, metrics>>

\* refill: the outer select takes case <-rl.ticker.C; when rl.ctx is done as
\* well both cases are ready and select picks either
RefillTick ==
  /\ Running
  /\ rl.refill = "select"
  /\ rl.refills < MaxRefills
  /\ rl' = [rl EXCEPT !.refill = "send", !.refills = @ + 1]
  /\ UNCHANGED <<appVars, metrics>>

\* refill: the inner select, case rl.tokens <- struct{}{} with a default;
\* a send on a closed channel panics, a full channel takes the default
RefillSend ==
  /\ Running
  /\ rl.refill = "send"
  /\ rl' = IF rl.chClosed
           THEN [rl EXCEPT !.panic = "send on closed channel"]
           ELSE [rl EXCEPT !.tokens = IF @ < Burst THEN @ + 1 ELSE @,
                           !.refill = "select"]
  /\ UNCHANGED <<appVars, metrics>>

\* refill: the outer select takes case <-rl.ctx.Done()
RefillReturn ==
  /\ Running
  /\ rl.refill = "select"
  /\ rl.ctxDone
  /\ rl' = [rl EXCEPT !.refill = "returned"]
  /\ UNCHANGED <<appVars, metrics>>

\* case <-rl.tokens is ready: the channel holds a token, or it is closed (a
\* receive from a closed channel returns at once)
Receives(r) == r.tokens > 0 \/ r.chClosed

\* The limiter after a call that received from rl.tokens
Granted(r) ==
  [r EXCEPT !.tokens = IF @ > 0 THEN @ - 1 ELSE @,
            !.waits = @ + 1,
            !.granted = @ + 1,
            !.late = @ \/ r.returned]

\* TryWait: true when case <-rl.tokens is ready, else the default, false
TryWait ==
  /\ Running
  /\ rl.waits < MaxWaits
  /\ rl' = IF Receives(rl) THEN Granted(rl) ELSE [rl EXCEPT !.waits = @ + 1]
  /\ UNCHANGED <<appVars, metrics>>

\* Wait: the select returns through a case that is ready (any of them when
\* several are): nil from rl.tokens, an error from the caller's context or
\* from rl.ctx; it blocks while none is
Wait ==
  /\ Running
  /\ rl.waits < MaxWaits
  /\ \E callerDone \in BOOLEAN :
       \/ /\ Receives(rl)
          /\ rl' = Granted(rl)
       \/ /\ callerDone \/ rl.ctxDone
          /\ rl' = [rl EXCEPT !.waits = @ + 1]
  /\ UNCHANGED <<appVars, metrics>>

LimiterNext ==
  \/ \E k \in Closers : CloseLock(k)
  \/ \E k \in Closers : CloseTest(k)
  \/ \E k \in Closers : CloseCancel(k)
  \/ \E k \in Closers : CloseChannel(k)
  \/ \E k \in Closers : CloseUnlock(k)
  \/ RefillTick
  \/ RefillSend
  \/ RefillReturn
  \/ TryWait
  \/ Wait

LimiterInit ==
  /\ Init

SpecLimiter == LimiterInit /\ [][LimiterNext]_vars

\* C28: no token is sent on rl.tokens after Close has closed it - whatever
\* the interleaving of Close with refill's ticker event, the process does
\* not panic - and any number of Close calls close the channel once.
C28_NoSendAfterClose ==
  /\ rl.panic = "none"
  /\ rl.closes <= 1
  /\ (\A k \in Closers : rl.closer[k] = "done") => rl.closes = 1

\* C29: the calls of Wait and TryWait that report a token are never more
\* than burst plus the ticker events refill took, and no call made after a
\* Close has returned reports one.
C29_OneGrantPerToken ==
  /\ rl.granted <= Burst + rl.refills
  /\ ~rl.late

\* ------------------------------------------------------------- the metrics
\* sync.RWMutex: RLock returns at once unless a writer holds the lock or is
\* waiting in Lock, and blocks while one is; Lock lets in no new reader from
\* the moment it is called and returns once the readers it found have left

\* Summary: m.mu.RLock()
SummaryRLock ==
  /\ metrics.summary = "idle"
  /\ metrics.summaries < MaxSummaries
  /\ metrics.pending = ""
  /\ metrics' = [metrics EXCEPT !.readers = @ + 1, !.summary = "uptime",
                                !.summaries = @ + 1]
  /\ UNCHANGED <<appVars, rl>>

\* Summary calls m.GetUptime(): m.mu.RLock() again, the first still held
UptimeRLock ==
  /\ metrics.summary = "uptime"
  /\ metrics.pending = ""
  /\ metrics' = [metrics EXCEPT !.readers = @ + 1, !.summary = "since"]
  /\ UNCHANGED <<appVars, rl>>

\* GetUptime: time.Since, the deferred m.mu.RUnlock(), and the return
UptimeRUnlock ==
  /\ metrics.summary = "since"
  /\ metrics' = [metrics EXCEPT !.readers = @ - 1, !.summary = "map"]
  /\ UNCHANGED <<appVars, rl>>

\* Summary: the map is built, the deferred m.mu.RUnlock(), and the return
SummaryRUnlock ==
  /\ metrics.summary = "map"
  /\ metrics' = [metrics EXCEPT !.readers = @ - 1, !.summary = "idle"]
  /\ UNCHANGED <<appVars, rl>>

\* Increment* / Set*: m.mu.Lock() is called; writers queue on the mutex's
\* inner lock, the first one in announces itself to the readers
WriterLock(w) ==
  /\ metrics.writer[w] = "idle"
  /\ metrics.writes < MaxWrites
  /\ metrics.pending = ""
  /\ metrics' = [metrics EXCEPT !.pending = w, !.writer[w] = "lock",
                                !.writes = @ + 1]
  /\ UNCHANGED <<appVars, rl>>

\* Increment* / Set*: m.mu.Lock() returns, the readers have left
WriterAcquire(w) ==
  /\ metrics.writer[w] = "lock"
  /\ metrics.readers = 0
  /\ metrics' = [metrics EXCEPT !.writing = TRUE, !.writer[w] = "write"]
  /\ UNCHANGED <<appVars, rl>>

\* Increment* / Set*: the field is written, the deferred m.mu.Unlock()
WriterUnlock(w) ==
  /\ metrics.writer[w] = "write"
  /\ metrics' = [metrics EXCEPT !.writing = FALSE, !.pending = "",
                                !.writer[w] = "idle"]
  /\ UNCHANGED <<appVars, rl>>

MetricsNext ==
  \/ SummaryRLock
  \/ UptimeRLock
  \/ UptimeRUnlock
  \/ SummaryRUnlock
  \/ \E w \in Writers : WriterLock(w)
  \/ \E w \in Writers : WriterAcquire(w)
  \/ \E w \in Writers : WriterUnlock(w)

MetricsInit ==
  /\ Init

SpecMetrics == MetricsInit /\ [][MetricsNext]_vars

\* Every goroutine that can take a step gets to take it
FairMetrics ==
  /\ SpecMetrics
  /\ WF_vars(SummaryRLock)
  /\ WF_vars(UptimeRLock)
  /\ WF_vars(UptimeRUnlock)
  /\ WF_vars(SummaryRUnlock)
  /\ \A w \in Writers : WF_vars(WriterLock(w))
  /\ \A w \in Writers : WF_vars(WriterAcquire(w))
  /\ \A w \in Writers : WF_vars(WriterUnlock(w))

\* C30: Metrics.Summary always returns, and no goroutine blocks forever on
\* the metrics mutex: a Summary call that has begun returns, and a writer
\* that has called Lock gets the lock and releases it, whatever the
\* interleaving of Summary with the Increment* / Set* callers.
C30_SummaryReturns ==
  /\ (metrics.summary # "idle") ~> (metrics.summary = "idle")
  /\ \A w \in Writers :
       (metrics.writer[w] # "idle") ~> (metrics.writer[w] = "idle")

====
